---------------------------- MODULE Spec2Model ----------------------------
(***************************************************************************)
(* A model of the Lyman-alpha bubble likelihood engine.                    *)
(*                                                                         *)
(*   src/main.py          _get_likelihood      one grid-point task         *)
(*   src/main.py          sample_bubbles_grid  the parallel grid driver    *)
(*   src/venv/igm_prop.py calculate_taus_i     sightline optical depth     *)
(*   src/venv/igm_prop.py tau_wv               mean-field fallback         *)
(*                                                                         *)
(* The specifications share the variables:                                 *)
(*   SpecGrid  the driver: submit, collect in any order, sort, reshape     *)
(*   SpecGridInOrder  the driver on the axes n_grid gives, tasks in order  *)
(*   SpecTask  one task: Monte-Carlo loop per galaxy, then the KDE phase   *)
(*   SpecTaus  one call of calculate_taus_i, sightline by sightline        *)
(*   SpecDist  the exit distance of a galaxy from the candidate bubble     *)
(*   SpecBub   one call of get_bubbles, placement by placement             *)
(*   SpecRuns  two runs of a task next to each other, galaxy by galaxy     *)
(*   SpecMerge one sightline of calculate_taus up to its merge step        *)
(* A specification keeps the variables of the others at Idle.              *)
(***************************************************************************)
EXTENDS Integers, Sequences, FiniteSets, TLC

VARIABLES
    \* ---- sample_bubbles_grid
    n_grid,          \* the argument n_grid, None where the axes are stand-ins
    g_lens,          \* <<len(x_grid), len(y_grid), len(z_grid), len(r_grid)>>
    multiple_iter,   \* 0 for False/None, else the number of iterations
    ind_iter,        \* loop variable of the multiple-iteration loop
    pending,         \* indices of submitted tasks that have not finished
    like_calc,       \* results handed back by the parallel map, in hand-back order
    top,             \* like_grid_*_top: iteration -> reshaped grid, Zero where unwritten
    likelihood_grid, \* the value returned, None before the return
    g_pc,            \* "map", "returned", "raised"
    arrival,         \* history: task indices in the order they were handed back
    raisedTasks,     \* history: <<iteration, index>> of every task that raised
    \* ---- _get_likelihood
    t_in,            \* the arguments of the call
    t_pc,            \* position in the function
    index_gal,       \* loop variable of the galaxy loop
    n,               \* loop variable of the Monte-Carlo loop
    taus_now,        \* clean transmissions of the current galaxy
    flux_now,        \* flux array of the current galaxy, Zero where unwritten
    taus_tot,        \* per galaxy: taus_now flattened
    flux_tot,        \* per galaxy: flux_now flattened
    tot_b,           \* taus_tot_b, flux_tot_b, spectrum_tot_b: appended together
    ind_data,        \* loop variable of the KDE loop: <<k>>, Unbound before its first pass
    likelihood_tau,  \* entry -> sequence of the terms added to it
    likelihood_int,
    likelihood_spec,
    contrib,         \* history: galaxy -> the terms its KDE pass computed
    exc,             \* the exception that left the function, "none" otherwise
    t_ret,           \* the returned tuple, None otherwise
    t_hist,          \* history: what went wrong on the way
    names_used,      \* the file names appended so far
    cache_ops,       \* history: the calls made on cache savers, in order
    \* ---- calculate_taus_i
    c_in,            \* the arguments of the call and the caller's x_H
    c_pc,            \* "loop", "returned", "raised"
    c_i,             \* number of sightlines done
    taus,            \* the curves computed so far
    c_ret,           \* the returned array, None otherwise
    c_hist,          \* history: per sightline what the walk saw
    \* ---- _get_likelihood, the exit distance of one galaxy
    e_in,            \* the galaxy and the candidate bubble
    e_pc,            \* "start", "done"
    e_dist,          \* dist
    e_z_end_bub,     \* z_end_bub
    e_calls,         \* history: the arguments of each call of calculate_taus_i
    \* ---- get_bubbles
    b_in,            \* the arguments of the call
    b_pc,            \* "loop", "returned"
    v_tot,           \* the volume accumulated so far
    try_i,           \* the counter the give-up test reads
    bubble_xs,       \* bubble_xs, and with it bubble_ys, bubble_zs, bubble_rs
    b_hist,          \* history: passes of the loop, rejections in a row, how it ended
    \* ---- two runs of _get_likelihood side by side
    r_in,            \* run -> its arguments and the random draws it is served
    r_pc,            \* run -> index_gal and the exception that ended the run
    r_out,           \* run -> per galaxy: the file opened and the samples made
    \* ---- calculate_taus, one sightline up to the merge
    u_in,            \* the bubbles and the sightline
    u_pc,            \* "edges", "merge", "walk", "no_intersection"
    z_edge,          \* the edges collected, in the order of the bubbles
    z_edge_up_sorted, \* with it red_edge_up_sorted
    z_edge_lo_sorted  \* with it red_edge_lo_sorted

gridVars == <<n_grid, g_lens, multiple_iter, ind_iter, pending, like_calc, top,
              likelihood_grid, g_pc, arrival, raisedTasks>>
taskVars == <<t_in, t_pc, index_gal, n, taus_now, flux_now, taus_tot, flux_tot,
              tot_b, ind_data, likelihood_tau, likelihood_int, likelihood_spec,
              contrib, exc, t_ret, t_hist, names_used, cache_ops>>
tausVars == <<c_in, c_pc, c_i, taus, c_ret, c_hist>>
distVars == <<e_in, e_pc, e_dist, e_z_end_bub, e_calls>>
bubVars == <<b_in, b_pc, v_tot, try_i, bubble_xs, b_hist>>
runVars == <<r_in, r_pc, r_out>>
mergeVars == <<u_in, u_pc, z_edge, z_edge_up_sorted, z_edge_lo_sorted>>
vars == <<gridVars, taskVars, tausVars, distVars, bubVars, runVars, mergeVars>>

None == "None"
Zero == "0.0"
Unbound == <<>>      \* a local that no statement has assigned yet
Idle == "idle"

GridIdle == /\ n_grid = Idle /\ g_lens = Idle /\ multiple_iter = Idle /\ ind_iter = Idle
            /\ pending = Idle /\ like_calc = Idle /\ top = Idle
            /\ likelihood_grid = Idle /\ g_pc = Idle /\ arrival = Idle
            /\ raisedTasks = Idle
TaskIdle == /\ t_in = Idle /\ t_pc = Idle /\ index_gal = Idle /\ n = Idle
            /\ taus_now = Idle /\ flux_now = Idle /\ taus_tot = Idle
            /\ flux_tot = Idle /\ tot_b = Idle /\ ind_data = Idle /\ likelihood_tau = Idle
            /\ likelihood_int = Idle /\ likelihood_spec = Idle
            /\ contrib = Idle /\ exc = Idle /\ t_ret = Idle /\ t_hist = Idle
            /\ names_used = Idle /\ cache_ops = Idle
TausIdle == /\ c_in = Idle /\ c_pc = Idle /\ c_i = Idle /\ taus = Idle
            /\ c_ret = Idle /\ c_hist = Idle
DistIdle == /\ e_in = Idle /\ e_pc = Idle /\ e_dist = Idle /\ e_z_end_bub = Idle
            /\ e_calls = Idle

BubIdle == /\ b_in = Idle /\ b_pc = Idle /\ v_tot = Idle /\ try_i = Idle
           /\ bubble_xs = Idle /\ b_hist = Idle
RunIdle == /\ r_in = Idle /\ r_pc = Idle /\ r_out = Idle
MergeIdle == /\ u_in = Idle /\ u_pc = Idle /\ z_edge = Idle
             /\ z_edge_up_sorted = Idle /\ z_edge_lo_sorted = Idle

GridFrame == UNCHANGED <<taskVars, tausVars, distVars, bubVars, runVars, mergeVars>>
TaskFrame == UNCHANGED <<gridVars, tausVars, distVars, bubVars, runVars, mergeVars>>
TausFrame == UNCHANGED <<gridVars, taskVars, distVars, bubVars, runVars, mergeVars>>
DistFrame == UNCHANGED <<gridVars, taskVars, tausVars, bubVars, runVars, mergeVars>>
BubFrame == UNCHANGED <<gridVars, taskVars, tausVars, distVars, runVars, mergeVars>>
RunFrame == UNCHANGED <<gridVars, taskVars, tausVars, distVars, bubVars, mergeVars>>
MergeFrame == UNCHANGED <<gridVars, taskVars, tausVars, distVars, bubVars, runVars>>

(***************************************************************************)
(*                      sample_bubbles_grid                                *)
(***************************************************************************)

\* The grid axes are np.linspace arrays; the driver uses only their lengths
\* and their elements in order.  The source fixes len(x_grid) = len(y_grid)
\* and takes len(z_grid) = len(r_grid) = n_grid; the model runs the driver
\* on axes of every length up to MaxAxisLen with at most MaxTasks points.
MaxAxisLen == 2
MaxTasks == 4
MaxMultipleIter == 2

AxisLens == {l \in (1..MaxAxisLen) \X (1..MaxAxisLen) \X (1..MaxAxisLen) \X (1..MaxAxisLen) :
                l[1] * l[2] * l[3] * l[4] <= MaxTasks}

\* np.linspace(lo, hi, num): num strictly increasing values, here 0..num-1
linspace(num) == [k \in 1..num |-> k - 1]

NTasks(lens) == lens[1] * lens[2] * lens[3] * lens[4]

\* itertools.product(x_grid, y_grid, z_grid, r_grid): nested loops, the
\* rightmost axis advancing fastest
RECURSIVE Concat(_)
Concat(ss) == IF ss = <<>> THEN <<>> ELSE Head(ss) \o Concat(Tail(ss))

\* the leftmost axis advancing fastest
productMutant(xg, yg, zg, rg) ==
    Concat([d \in 1..Len(rg) |->
      Concat([c \in 1..Len(zg) |->
        Concat([b \in 1..Len(yg) |->
          [a \in 1..Len(xg) |-> <<xg[a], yg[b], zg[c], rg[d]>>]])])])

product(xg, yg, zg, rg) ==
    Concat([a \in 1..Len(xg) |->
      Concat([b \in 1..Len(yg) |->
        Concat([c \in 1..Len(zg) |->
          [d \in 1..Len(rg) |-> <<xg[a], yg[b], zg[c], rg[d]>>]])])])

Candidates(lens) ==
    product(linspace(lens[1]), linspace(lens[2]), linspace(lens[3]), linspace(lens[4]))

\* What the task called for candidate cand in iteration it returns as l[1]:
\* the same value whenever it is evaluated (fixed seed per grid point).
Like(it, cand) == <<"like", it, cand>>

\* delayed(_get_likelihood)(index, xb, yb, zb, rb, ...) for index, (xb, ..)
\* in enumerate(product(...)); index is 0-based
TaskResult(it, lens, index) ==
    [ndex |-> index, like |-> Like(it, Candidates(lens)[index + 1])]

\* like_calc.sort(key=lambda x: x[0]): a stable insertion by the key
RECURSIVE InsertByKey(_, _)
InsertByKey(r, s) ==
    IF s = <<>> THEN <<r>>
    ELSE IF r.ndex < Head(s).ndex THEN <<r>> \o s
    ELSE <<Head(s)>> \o InsertByKey(r, Tail(s))

SortMutant(s) == s

RECURSIVE sort(_)
sort(s) == IF s = <<>> THEN <<>>
           ELSE InsertByKey(s[Len(s)], sort(SubSeq(s, 1, Len(s) - 1)))

Cells(lens) == (0..(lens[1]-1)) \X (0..(lens[2]-1)) \X (0..(lens[3]-1)) \X (0..(lens[4]-1))

\* np.array([l[1][k] for l in like_calc]).reshape((len(x_grid), len(y_grid),
\* len(z_grid), len(r_grid), ...)): C order, the last axis contiguous
reshape(flat, lens) ==
    [c \in Cells(lens) |->
        flat[((c[1] * lens[2] + c[2]) * lens[3] + c[3]) * lens[4] + c[4] + 1].like]

\* Parallel(n_jobs=50)(...): an exception of a task is raised again in the
\* caller, which has no handler: the driver's position after a task raised
AfterTaskRaiseMutant == "map"

AfterTaskRaise == "raised"

InitGrid ==
    /\ n_grid = None
    /\ g_lens \in AxisLens
    /\ multiple_iter \in 0..MaxMultipleIter
    /\ ind_iter = 0
    /\ pending = 0..(NTasks(g_lens) - 1)
    /\ like_calc = <<>>
    /\ top = [k \in 0..(multiple_iter - 1) |-> [c \in Cells(g_lens) |-> Zero]]
    /\ likelihood_grid = None
    /\ g_pc = "map"
    /\ arrival = <<>>
    /\ raisedTasks = {}
    /\ TaskIdle /\ TausIdle /\ DistIdle /\ BubIdle /\ RunIdle /\ MergeIdle

\* a task finishes and its tuple is handed back
HandBack(i) ==
    /\ g_pc = "map"
    /\ i \in pending
    /\ pending' = pending \ {i}
    /\ like_calc' = Append(like_calc, TaskResult(ind_iter, g_lens, i))
    /\ arrival' = Append(arrival, i)
    /\ UNCHANGED <<n_grid, g_lens, multiple_iter, ind_iter, top, likelihood_grid, g_pc,
                   raisedTasks>>
    /\ GridFrame

\* a task raises
TaskRaises(i) ==
    /\ g_pc = "map"
    /\ i \in pending
    /\ pending' = pending \ {i}
    /\ raisedTasks' = raisedTasks \cup {<<ind_iter, i>>}
    /\ g_pc' = AfterTaskRaise
    /\ UNCHANGED <<n_grid, g_lens, multiple_iter, ind_iter, like_calc, top,
                   likelihood_grid, arrival>>
    /\ GridFrame

\* the else branch: the map has returned; sort, reshape, return
CollectSingle ==
    /\ g_pc = "map"
    /\ pending = {}
    /\ multiple_iter = 0
    /\ IF Len(like_calc) = NTasks(g_lens)
       THEN /\ like_calc' = sort(like_calc)
            /\ likelihood_grid' = reshape(like_calc', g_lens)
            /\ g_pc' = "returned"
       ELSE \* reshape of an array of another size: ValueError
            /\ like_calc' = sort(like_calc)
            /\ likelihood_grid' = None
            /\ g_pc' = "raised"
    /\ UNCHANGED <<n_grid, g_lens, multiple_iter, ind_iter, pending, top, arrival,
                   raisedTasks>>
    /\ GridFrame

\* the grid written to every slot of the last axis
StoreAtMutant(t, k, grid) == [j \in DOMAIN t |-> grid]

\* lines 689-692: like_grid_*_top[..., ind_iter] = likelihood_grid_*
StoreAt(t, k, grid) == [t EXCEPT ![k] = grid]

\* the multiple_iter branch: the map of iteration ind_iter has returned;
\* sort, reshape, store at [..., ind_iter]; then the next map or the return
CollectIter ==
    /\ g_pc = "map"
    /\ pending = {}
    /\ multiple_iter # 0
    /\ IF Len(like_calc) = NTasks(g_lens)
       THEN /\ top' = StoreAt(top, ind_iter, reshape(sort(like_calc), g_lens))
            /\ IF ind_iter + 1 < multiple_iter
               THEN /\ ind_iter' = ind_iter + 1
                    /\ pending' = 0..(NTasks(g_lens) - 1)
                    /\ like_calc' = <<>>
                    /\ arrival' = <<>>
                    /\ UNCHANGED <<likelihood_grid, g_pc>>
               ELSE /\ likelihood_grid' = top'
                    /\ g_pc' = "returned"
                    /\ like_calc' = sort(like_calc)
                    /\ UNCHANGED <<ind_iter, pending, arrival>>
       ELSE /\ g_pc' = "raised"
            /\ like_calc' = sort(like_calc)
            /\ UNCHANGED <<top, ind_iter, pending, likelihood_grid, arrival>>
    /\ UNCHANGED <<n_grid, g_lens, multiple_iter, raisedTasks>>
    /\ GridFrame

NextGrid ==
    \/ \E i \in 0..(MaxTasks + MaxAxisLen) : HandBack(i)
    \/ \E i \in 0..(MaxTasks + MaxAxisLen) : TaskRaises(i)
    \/ CollectSingle
    \/ CollectIter

SpecGrid == InitGrid /\ [][NextGrid]_vars

\* The driver on the axes the source builds, with the tasks handed back in
\* index order.
MaxNGrid == 1
FixedAxisLen == 5    \* x_grid = y_grid = np.linspace(-5.0, 5.0, 5)

\* lines 570-595: the lengths of x_grid, y_grid, z_grid, r_grid
GridLens(ng) == <<FixedAxisLen, FixedAxisLen, ng, ng>>

InitGridInOrder ==
    /\ n_grid \in 1..MaxNGrid
    /\ g_lens = GridLens(n_grid)
    /\ multiple_iter \in 0..MaxMultipleIter
    /\ ind_iter = 0
    /\ pending = 0..(NTasks(g_lens) - 1)
    /\ like_calc = <<>>
    /\ top = [k \in 0..(multiple_iter - 1) |-> [c \in Cells(g_lens) |-> Zero]]
    /\ likelihood_grid = None
    /\ g_pc = "map"
    /\ arrival = <<>>
    /\ raisedTasks = {}
    /\ TaskIdle /\ TausIdle /\ DistIdle /\ BubIdle /\ RunIdle /\ MergeIdle

HandBackInOrder == HandBack(Len(like_calc))

NextGridInOrder ==
    \/ HandBackInOrder
    \/ CollectSingle
    \/ CollectIter

SpecGridInOrder == InitGridInOrder /\ [][NextGridInOrder]_vars

\* evaluating the grid points one after another in index order
SequentialGrid(it) ==
    reshape([i \in 1..NTasks(g_lens) |-> TaskResult(it, g_lens, i - 1)], g_lens)

\* C1: for every order in which the tasks are handed back, the returned grid
\* (sorted by the returned index, then reshaped) equals the grid of the
\* sequential evaluation in index order, in single and in multiple-iteration
\* mode.
C1_GridReassembly ==
    g_pc = "returned" =>
        likelihood_grid = IF multiple_iter = 0 THEN SequentialGrid(0)
                          ELSE [k \in 0..(multiple_iter - 1) |-> SequentialGrid(k)]

\* a grid was returned after the tasks were handed back out of index order
C1_Witness ==
    /\ g_pc = "returned"
    /\ \E a, b \in 1..Len(arrival) : a < b /\ arrival[a] > arrival[b]

GridsReturned ==
    IF multiple_iter = 0 THEN {likelihood_grid}
    ELSE {likelihood_grid[k] : k \in 0..(multiple_iter - 1)}

\* C7: once a task has raised the driver has raised and returns no grid; a
\* returned grid has every cell written from a task that completed.
C7_NoPartialGrid ==
    /\ raisedTasks # {} => g_pc = "raised" /\ likelihood_grid = None
    /\ g_pc = "returned" =>
          /\ raisedTasks = {}
          /\ \A g \in GridsReturned : \A c \in Cells(g_lens) :
                /\ g[c] # Zero
                /\ \E it \in 0..MaxMultipleIter, i \in 1..NTasks(g_lens) :
                      g[c] = TaskResult(it, g_lens, i - 1).like

\* a task of the second iteration raised: the first iteration's slots of the
\* top-level grid are written, the rest are zeros, and nothing is returned
C7_Witness ==
    /\ g_pc = "raised"
    /\ raisedTasks # {}
    /\ multiple_iter > 1
    /\ ind_iter = 1
    /\ \E c \in Cells(g_lens) : top[1][c] = Zero /\ top[0][c] # Zero
    /\ likelihood_grid = None

(***************************************************************************)
(*                          _get_likelihood                                *)
(***************************************************************************)

MaxGal == 2          \* len(xs)
MaxIterBub == 2      \* n_iter_bub
MaxInsideTau == 2    \* n_inside_tau

Galaxies(N) == 0..(N - 1)

\* The arguments the control flow depends on.  like_on_flux is TRUE when an
\* array of spectra is passed and FALSE for the default False; flux_below[g]
\* is flux_int[g] < flux_limit and tau_below[g] is tau_data[g] < 0.01.
\* beta_data is Unbound for the default None, or holds the slope every galaxy
\* has in the array passed, in tenths.
TaskInputs ==
    UNION {[N : {N}, n_iter_bub : 1..MaxIterBub, n_inside_tau : 1..MaxInsideTau,
            like_on_flux : BOOLEAN, like_on_tau_full : BOOLEAN,
            beta_data : {Unbound, <<-15>>}, cache : BOOLEAN,
            flux_below : [Galaxies(N) -> BOOLEAN],
            tau_below : [Galaxies(N) -> BOOLEAN]] : N \in 1..MaxGal}

\* lines 130-131: beta_data after the test for None, slopes in tenths
beta_data_of(in) ==
    IF in.beta_data = Unbound THEN [g \in Galaxies(in.N) |-> 0]
    ELSE [g \in Galaxies(in.N) |-> in.beta_data[1]]

\* lines 136-137: the slope the loop hands to galaxy g
beti(in, g) == beta_data_of(in)[g]

Min(a, b) == IF a < b THEN a ELSE b

\* the first b - a entries whatever a is
SliceMutant(s, a, b) ==
    IF Min(b - a, Len(s)) <= 0 THEN <<>> ELSE SubSeq(s, 1, Min(b - a, Len(s)))

\* s[a:b] of a Python sequence: 0-based, half open, clipped to the length
Slice(s, a, b) ==
    IF Min(a, Len(s)) >= Min(b, Len(s)) THEN <<>>
    ELSE SubSeq(s, Min(a, Len(s)) + 1, Min(b, Len(s)))

\* numpy broadcasting of two 1-d shapes: the result length, or -1 (ValueError)
Broadcast(a, b) == IF a = b THEN a
                   ELSE IF a = 1 THEN b
                   ELSE IF b = 1 THEN a
                   ELSE -1

\* arr[lo:hi] = src for a target slice of length target: src must have that
\* length or length 1
AssignFits(target, src) == src = target \/ src = 1

\* res of one Monte-Carlo iteration: n_inside_tau integrated transmissions;
\* big marks a value that is not below 10000
Res(gal, it, nit, bad) ==
    [k \in 1..nit |-> [gal |-> gal, it |-> it, k |-> k, big |-> k \in bad]]

\* every batch taken
CleanBatchMutant(bad) == TRUE

\* lines 264-272: np.all(np.array(res) < 10000) decides for the whole batch
CleanBatch(bad) == bad = {}

InitTask ==
    /\ t_in \in TaskInputs
    /\ t_pc = "galaxy"
    /\ index_gal = 0
    /\ n = 0
    /\ taus_now = <<>>
    /\ flux_now = <<>>
    /\ taus_tot = <<>>
    /\ flux_tot = <<>>
    /\ tot_b = <<>>
    /\ ind_data = Unbound
    /\ likelihood_tau = [g \in Galaxies(t_in.N) |-> <<>>]
    /\ likelihood_int = [g \in Galaxies(t_in.N) |-> <<>>]
    /\ likelihood_spec = [g \in Galaxies(t_in.N) |-> <<>>]
    /\ contrib = [g \in Galaxies(t_in.N) |-> <<>>]
    /\ exc = "none"
    /\ t_ret = None
    /\ t_hist = [discarded |-> {}, kde_failed |-> FALSE, raised_in |-> "none"]
    /\ names_used = <<>>
    /\ cache_ops = <<>>
    /\ GridIdle /\ TausIdle /\ DistIdle /\ BubIdle /\ RunIdle /\ MergeIdle

\* save_cl.fname of the saver made for galaxy gal
fname(gal) == <<"file", gal>>

\* lines 224-241: in pass 0 the saver is made, which opens its file, and the
\* attributes are saved
OpenSaver(gal) == <<[op |-> "open", file |-> fname(gal)],
                    [op |-> "save_attrs", file |-> fname(gal)]>>

\* lines 336-364, after the Monte-Carlo loop: the datasets are saved, the
\* name is appended to names_used and the file is closed
CloseSaver(gal) == <<[op |-> "save_datasets", file |-> fname(gal)],
                     [op |-> "close_file", file |-> fname(gal)]>>

\* lines 136-201: the head of the galaxy loop
GalaxyStart ==
    /\ t_pc = "galaxy"
    /\ index_gal < t_in.N
    /\ taus_now' = <<>>
    /\ flux_now' = [k \in 1..(t_in.n_iter_bub * t_in.n_inside_tau) |-> Zero]
    /\ n' = 0
    /\ t_pc' = "mc"
    /\ UNCHANGED <<t_in, index_gal, taus_tot, flux_tot, tot_b, ind_data, likelihood_tau,
                   likelihood_int, likelihood_spec, contrib, exc, t_ret, t_hist>>
    /\ UNCHANGED <<names_used, cache_ops>>
    /\ TaskFrame

\* lines 202-333: one pass of the Monte-Carlo loop; bad is the set of draws
\* of this pass whose integrated transmission is not below 10000
McIteration(bad) ==
    /\ t_pc = "mc"
    /\ n < t_in.n_iter_bub
    /\ LET nit == t_in.n_inside_tau
           res == Res(index_gal, n, nit, bad)
           taus1 == IF CleanBatch(bad) THEN taus_now \o res ELSE taus_now
           part == Slice(taus1, n * nit, (n + 1) * nit)
           fluxLen == Broadcast(nit, Len(part))
           flux_now_i == [k \in 1..fluxLen |->
                            <<"F", IF Len(part) = 1 THEN part[1] ELSE part[k]>>]
           fluxOK == fluxLen >= 0 /\ AssignFits(nit, fluxLen)
           hist1 == [t_hist EXCEPT !.discarded =
                        IF CleanBatch(bad) THEN @
                        ELSE @ \cup {<<index_gal, n, k>> : k \in bad}]
       IN  /\ taus_now' = taus1
           /\ IF ~fluxOK
              THEN \* lines 283-288: shapes do not fit
                   /\ exc' = "ValueError"
                   /\ t_pc' = "raised"
                   /\ t_hist' = [hist1 EXCEPT !.raised_in = "mc"]
                   /\ UNCHANGED <<flux_now, n>>
              ELSE /\ flux_now' = [k \in DOMAIN flux_now |->
                                     IF n * nit < k /\ k <= (n + 1) * nit
                                     THEN IF fluxLen = 1 THEN flux_now_i[1]
                                          ELSE flux_now_i[k - n * nit]
                                     ELSE flux_now[k]]
                   /\ IF ~t_in.like_on_flux
                      THEN \* lines 292, 327-329: wave_em_dig_arr was never assigned
                           /\ exc' = "UnboundLocalError"
                           /\ t_pc' = "raised"
                           /\ t_hist' = [hist1 EXCEPT !.raised_in = "mc"]
                           /\ UNCHANGED n
                      ELSE /\ n' = n + 1
                           /\ t_hist' = hist1
                           /\ UNCHANGED <<exc, t_pc>>
    /\ cache_ops' = IF t_in.cache /\ n = 0
                    THEN cache_ops \o OpenSaver(index_gal)
                    ELSE cache_ops
    /\ UNCHANGED <<t_in, index_gal, taus_tot, flux_tot, tot_b, ind_data, likelihood_tau,
                   likelihood_int, likelihood_spec, contrib, t_ret, names_used>>
    /\ TaskFrame

\* lines 366-368: the foot of the galaxy loop
GalaxyEnd ==
    /\ t_pc = "mc"
    /\ n = t_in.n_iter_bub
    /\ flux_tot' = Append(flux_tot, flux_now)
    /\ taus_tot' = Append(taus_tot, taus_now)
    /\ index_gal' = index_gal + 1
    /\ t_pc' = "galaxy"
    /\ cache_ops' = IF t_in.cache THEN cache_ops \o CloseSaver(index_gal)
                    ELSE cache_ops
    /\ names_used' = IF t_in.cache THEN Append(names_used, fname(index_gal))
                     ELSE names_used
    /\ UNCHANGED <<t_in, n, taus_now, flux_now, tot_b, ind_data, likelihood_tau,
                   likelihood_int, likelihood_spec, contrib, exc, t_ret, t_hist>>
    /\ TaskFrame

\* The terms the KDE loop adds.  gal is the galaxy whose distribution the KDE
\* was fitted to, data the galaxy whose observation it is compared with.
\* Bounds and points are named in the coordinate the KDE was fitted in.
\* lines 405-407: np.log(tau_kde.integrate_box(0.0, 0.01))
TauBox(gal, data) ==
    [kind |-> "log_integrate_box", kde |-> "tau", gal |-> gal, data |-> data,
     lo |-> "0.0", hi |-> "0.01"]
\* lines 409-411, 418-420: np.log(tau_kde.evaluate(tau_data[ind_data]))
TauEval(gal, data) ==
    [kind |-> "log_evaluate", kde |-> "tau", gal |-> gal, data |-> data,
     lo |-> "tau_data", hi |-> "tau_data"]
\* lines 459-462: np.log(flux_kde.integrate_box(0.05,
\*     np.log10(1e19 * (3e-19 + flux_limit)))); the KDE is fitted to
\* log10(1e19 * (3e-19 + flux)), where flux 0 sits at log10(3)
FluxBox(gal, data) ==
    [kind |-> "log_integrate_box", kde |-> "flux", gal |-> gal, data |-> data,
     lo |-> "0.05", hi |-> "log10(1e19*(3e-19+flux_limit))"]
\* lines 467-469
FluxEval(gal, data) ==
    [kind |-> "log_evaluate", kde |-> "flux", gal |-> gal, data |-> data,
     lo |-> "log10(1e19*(3e-19+flux_int))", hi |-> "log10(1e19*(3e-19+flux_int))"]
\* lines 449-453, the bins of one galaxy taken together
SpecEval(gal, data) ==
    [kind |-> "log_evaluate", kde |-> "spec", gal |-> gal, data |-> data,
     lo |-> "like_on_flux", hi |-> "like_on_flux"]
\* lines 480-482
NegInf(data) ==
    [kind |-> "neg_inf", kde |-> "-", gal |-> data, data |-> data,
     lo |-> "-", hi |-> "-"]

\* lines 403-420: what is added to likelihood_tau for position data
TauTerms(in, gal, data) ==
    IF in.like_on_tau_full
    THEN IF in.tau_below[data] THEN <<TauBox(gal, data)>> ELSE <<TauEval(gal, data)>>
    ELSE IF in.flux_below[data] THEN <<>> ELSE <<TauEval(gal, data)>>

\* lines 455-469: what is added to likelihood_int for position data
IntTerms(in, gal, data) ==
    IF in.flux_below[data] THEN <<FluxBox(gal, data)>> ELSE <<FluxEval(gal, data)>>

\* arr[:ind] += the terms: entries 0 .. ind-1 receive them
AddUpTo(arr, ind, terms) ==
    [g \in DOMAIN arr |-> IF g < ind THEN arr[g] \o terms ELSE arr[g]]

\* lines 374-388: the second filter, then np.array() of the three lists for
\* the zip; np.array of rows of unequal length is a ValueError
KdeFilter ==
    /\ t_pc = "galaxy"
    /\ index_gal = t_in.N
    /\ LET kept == SelectSeq([g \in 1..Len(taus_tot) |->
                                 [gal |-> g - 1, taus |-> taus_tot[g],
                                  flux |-> flux_tot[g]]],
                             LAMBDA e : \A k \in 1..Len(e.taus) : ~e.taus[k].big)
           ragged == \E a, b \in 1..Len(kept) : Len(kept[a].taus) # Len(kept[b].taus)
       IN  /\ tot_b' = kept
           /\ IF ragged
              THEN /\ t_pc' = "handler"
                   /\ t_hist' = [t_hist EXCEPT !.kde_failed = TRUE]
              ELSE /\ t_pc' = "kde"
                   /\ UNCHANGED t_hist
    /\ UNCHANGED <<t_in, index_gal, n, taus_now, flux_now, taus_tot, flux_tot,
                   ind_data, likelihood_tau, likelihood_int, likelihood_spec,
                   contrib, exc, t_ret>>
    /\ UNCHANGED <<names_used, cache_ops>>
    /\ TaskFrame

NextInd == IF ind_data = Unbound THEN 0 ELSE ind_data[1] + 1

\* lines 385-469: one pass of the KDE loop.  fail says where a LinAlgError,
\* ValueError or TypeError leaves the pass: "fit" in gaussian_kde of the
\* transmissions or fluxes (lines 389-394), "spec" in the KDE of the spectra
\* (lines 421-453), after likelihood_tau was updated; "none" for no failure.
KdeGalaxy(fail) ==
    /\ t_pc = "kde"
    /\ NextInd < Len(tot_b)
    /\ LET k == NextInd
           gal == tot_b[k + 1].gal
           tauT == TauTerms(t_in, gal, k)
           specT == <<SpecEval(gal, k)>>
           intT == IntTerms(t_in, gal, k)
       IN  /\ ind_data' = <<k>>
           /\ likelihood_tau' = IF fail = "fit" THEN likelihood_tau
                                ELSE AddUpTo(likelihood_tau, k, tauT)
           /\ likelihood_spec' = IF fail = "none"
                                 THEN AddUpTo(likelihood_spec, k, specT)
                                 ELSE likelihood_spec
           /\ likelihood_int' = IF fail = "none"
                                THEN AddUpTo(likelihood_int, k, intT)
                                ELSE likelihood_int
           /\ contrib' = [contrib EXCEPT ![k] =
                            IF fail = "fit" THEN <<>>
                            ELSE IF fail = "spec" THEN tauT
                            ELSE tauT \o specT \o intT]
           /\ IF fail = "none"
              THEN UNCHANGED <<t_pc, t_hist>>
              ELSE /\ t_pc' = "handler"
                   /\ t_hist' = [t_hist EXCEPT !.kde_failed = TRUE]
    /\ UNCHANGED <<t_in, index_gal, n, taus_now, flux_now, taus_tot, flux_tot,
                   tot_b, exc, t_ret>>
    /\ UNCHANGED <<names_used, cache_ops>>
    /\ TaskFrame

\* line 487: what the handler raises after logging
HandlerRaisesMutant == "ValueError"

HandlerRaises == "TypeError"

\* lines 479-487: except (LinAlgError, ValueError, TypeError)
Handler ==
    /\ t_pc = "handler"
    /\ IF ind_data = Unbound
       THEN \* line 480 reads ind_data before the loop has assigned it
            /\ exc' = "UnboundLocalError"
            /\ UNCHANGED <<likelihood_tau, likelihood_spec, likelihood_int>>
       ELSE /\ likelihood_tau' = AddUpTo(likelihood_tau, ind_data[1], <<NegInf(ind_data[1])>>)
            /\ likelihood_spec' = AddUpTo(likelihood_spec, ind_data[1], <<NegInf(ind_data[1])>>)
            /\ likelihood_int' = AddUpTo(likelihood_int, ind_data[1], <<NegInf(ind_data[1])>>)
            /\ exc' = HandlerRaises
    /\ t_pc' = "raised"
    /\ t_hist' = [t_hist EXCEPT !.raised_in = "kde"]
    /\ UNCHANGED <<t_in, index_gal, n, taus_now, flux_now, taus_tot, flux_tot,
                   tot_b, ind_data, contrib, t_ret>>
    /\ UNCHANGED <<names_used, cache_ops>>
    /\ TaskFrame

\* lines 489-501: likelihood_tau[0] is a scalar, so the else branch returns
Return ==
    /\ t_pc = "kde"
    /\ NextInd = Len(tot_b)
    /\ t_ret' = [ndex |-> "ndex",
                 like |-> <<likelihood_tau, likelihood_int, likelihood_spec>>]
    /\ t_pc' = "returned"
    /\ UNCHANGED <<t_in, index_gal, n, taus_now, flux_now, taus_tot, flux_tot,
                   tot_b, ind_data, likelihood_tau, likelihood_int,
                   likelihood_spec, contrib, exc, t_hist>>
    /\ UNCHANGED <<names_used, cache_ops>>
    /\ TaskFrame

NextTask ==
    \/ GalaxyStart
    \/ \E bad \in SUBSET (1..(MaxInsideTau + 1)) :
          bad \subseteq 1..t_in.n_inside_tau /\ McIteration(bad)
    \/ GalaxyEnd
    \/ KdeFilter
    \/ \E fail \in {"none", "fit", "spec"} : KdeGalaxy(fail)
    \/ Handler
    \/ Return

SpecTask == InitTask /\ [][NextTask]_vars

CountFor(terms, g) == Cardinality({k \in 1..Len(terms) : terms[k].data = g})

\* C2: the value reported for the grid point contains the contribution of
\* every galaxy 0..N-1 exactly once: some entry of the returned likelihood_int
\* holds one term of each galaxy.
C2_AllGalaxiesSummed ==
    t_pc = "returned" =>
        \E e \in Galaxies(t_in.N) : \A g \in Galaxies(t_in.N) :
            CountFor(t_ret.like[2][e], g) = 1

\* the coordinate of the value 0 where each KDE was fitted
ZeroOf(kde) == IF kde = "tau" THEN "0.0" ELSE "log10(1e19*(3e-19+0))"

TermsOf(g, kde) == {k \in 1..Len(contrib[g]) : contrib[g][k].kde = kde}

FloorTerm(g, kde) ==
    /\ TermsOf(g, kde) # {}
    /\ \A k \in TermsOf(g, kde) :
          /\ contrib[g][k].kind = "log_integrate_box"
          /\ contrib[g][k].lo = ZeroOf(kde)

\* C3: a galaxy whose observed value is below the floor contributes the log
\* of the KDE mass between 0 and the floor, and no log of a KDE evaluation:
\* to likelihood_int and likelihood_tau when flux_int < flux_limit, to
\* likelihood_tau when tau_data < 0.01 in like_on_tau_full mode.
C3_FloorRule ==
    t_pc = "returned" =>
        \A g \in Galaxies(t_in.N) :
            /\ t_in.flux_below[g] => FloorTerm(g, "flux")
            /\ t_in.flux_below[g] /\ ~t_in.like_on_tau_full => FloorTerm(g, "tau")
            /\ t_in.like_on_tau_full /\ t_in.tau_below[g] => FloorTerm(g, "tau")

HasNegInf(arr) ==
    \E g \in DOMAIN arr : \E k \in 1..Len(arr[g]) : arr[g][k].kind = "neg_inf"

\* C4: after a failure in the KDE phase the task raises nothing: once it has
\* left the handler it has returned its tuple, with minus infinity in it.
C4_KdeFailureRecovered ==
    t_hist.kde_failed /\ t_pc # "handler" =>
        /\ t_pc = "returned"
        /\ exc = "none"
        /\ t_ret # None

\* C5: a failure in the KDE phase ends the task by raising TypeError out of
\* the handler; the task returns no result.
C5_KdeFailureRaisesTypeError ==
    /\ t_hist.kde_failed => t_pc \in {"handler", "raised"} /\ t_ret = None
    /\ t_pc = "raised" /\ t_hist.raised_in = "kde" => exc = "TypeError"

\* the KDE of the second galaxy failed after the first pass had completed
C5_Witness ==
    /\ t_pc = "raised"
    /\ t_hist.kde_failed
    /\ exc = "TypeError"
    /\ ind_data = <<1>>
    /\ HasNegInf(likelihood_tau) /\ HasNegInf(likelihood_int)
    /\ t_ret = None

\* C6: after a draw that is not below 10000 was discarded the aggregator goes
\* on: the Monte-Carlo loop does not raise (spectra given, so that the
\* spectral binning itself can run).
C6_DiscardContinues ==
    t_hist.discarded # {} /\ t_in.like_on_flux =>
        ~(t_pc = "raised" /\ t_hist.raised_in = "mc")

(***************************************************************************)
(*                     calculate_taus_i and tau_wv                         *)
(***************************************************************************)

MaxBubbles == 2      \* bubbles in the ensemble passed in
MaxSightlines == 2   \* n_iter, the number of random sightlines

NWave == 2           \* wavelengths of wave_em kept in the model

\* Redshifts are carried as comoving distances in Mpc, which z_at_value(
\* Cosmo.comoving_distance, .) maps to redshift one to one and increasingly.
comoving_distance(zname) == CASE zname = "7.5" -> 40
                              [] zname = "5.3" -> 0

\* neutral fractions in hundredths
NfNoIntersection == 80     \* nf=0.8 of the fallback call
NfDefault == 50            \* nf=0.5, the default of tau_wv
XHFixed == 65              \* x_H = 0.65
DistDefault == 10          \* dist = 10, the default of both functions

\* lines 209-212 of main.py: x_H of one Monte-Carlo iteration
XHOfIteration(xh_unc) == IF xh_unc THEN {50, 80} ELSE {XHFixed}

Fin(v) == [inf |-> FALSE, v |-> v]
Inf == [inf |-> TRUE, v |-> 0]

\* line 532: z = wv / 1216 * (1 + z_source) - 1, the redshift at which the
\* wavelength wv is at the line centre.  wave_em runs from 1213 to 1219:
\* the first wavelength is blueward of 1216 and has z just below the source
\* redshift, the others are redward and have z above it.
z_wave(w) == IF w = 1 THEN comoving_distance("7.5") - 1
             ELSE comoving_distance("7.5") + w

\* helpers.I on the ratio (1 + z_b) / (1 + z), wavelength by wavelength: a
\* stand-in that grows with the boundary redshift below the pole at ratio 1
\* and is negative above it
Iof(w, zb) == IF zb > z_wave(w) THEN -(w * zb) ELSE w * zb

\* tau_pref * ((1 + z_bi) / (1 + z)) ** 1.5 * (I(.z_bi) - I(.z_ei)) over the
\* wavelengths
Segment(z_bi, z_ei) == [w \in 1..NWave |-> Iof(w, z_bi) - Iof(w, z_ei)]

\* tau_wv(wv, dist, zs, z_end, nf): x_d = nf times the segment from the
\* redshift at distance dist in front of the source down to z_end
tau_wv(dist, zs, z_end, nf) ==
    [w \in 1..NWave |-> nf * Segment(zs - dist, z_end)[w]]

Bubble(x, y, z, r) == [x |-> x, y |-> y, z |-> z, r |-> r]

\* bubbles on the axis x = y = 0 behind, around and in front of the galaxy,
\* and one off the axis
BubbleChoices ==
    {Bubble(0, 0, z, r) : z \in {-4, 2, 6}, r \in {1, 3}} \cup {Bubble(4, 0, 3, 5)}

\* get_bubbles draws random_z from (0, z_v)
BubblesSampled == {b \in BubbleChoices : b.z > 0}

SeqsUpTo(S, m) == UNION {[1..k -> S] : k \in 0..m}

\* np.random.uniform(-10, 10) for x and y
SightlineChoices == {<<0, 0>>, <<4, 0>>, <<9, 0>>}

ISqrt(v) == CHOOSE q \in 0..v : q * q = v

\* lines 546-576: the edges of every bubble the sightline passes through
Edges(xr, yr, bubs) ==
    LET hit == SelectSeq(bubs, LAMBDA b :
                   (xr - b.x) * (xr - b.x) + (yr - b.y) * (yr - b.y) < b.r * b.r)
        half(b) == ISqrt(b.r * b.r - ((xr - b.x) * (xr - b.x) + (yr - b.y) * (yr - b.y)))
        red(ze) == comoving_distance("7.5") - ze - 10
    IN  [k \in 1..Len(hit) |->
            [up |-> hit[k].z - half(hit[k]), lo |-> hit[k].z + half(hit[k]),
             red_up |-> red(hit[k].z - half(hit[k])),
             red_lo |-> red(hit[k].z + half(hit[k]))]]

RECURSIVE InsertByUp(_, _)
InsertByUp(e, s) ==
    IF s = <<>> THEN <<e>>
    ELSE IF e.up < Head(s).up THEN <<e>> \o s
    ELSE <<Head(s)>> \o InsertByUp(e, Tail(s))

RECURSIVE argsort(_)
argsort(s) == IF s = <<>> THEN <<>>
              ELSE InsertByUp(s[Len(s)], argsort(SubSeq(s, 1, Len(s) - 1)))

flip(s) == [k \in 1..Len(s) |-> s[Len(s) + 1 - k]]

\* np.delete(arr, indices), indices 0-based
delete(arr, indices) ==
    LET keep(k) == (k - 1) \notin indices
        F[k \in 0..Len(arr)] ==
            IF k = 0 THEN <<>>
            ELSE IF keep(k) THEN Append(F[k - 1], arr[k]) ELSE F[k - 1]
    IN  F[Len(arr)]

\* lines 585-603: sort by z_edge_up, flipped, then the merge
SortedMerged(edges) ==
    LET srt == flip(argsort(edges))
        del_lo == {i \in 0..(Len(srt) - 2) :
                      Len(srt) # 1 /\ srt[i + 1].lo < srt[i + 2].up}
        del_up == {i + 1 : i \in del_lo}
        ups == delete([k \in 1..Len(srt) |-> [z |-> srt[k].up, red |-> srt[k].red_up]], del_up)
        los == delete([k \in 1..Len(srt) |-> [z |-> srt[k].lo, red |-> srt[k].red_lo]], del_lo)
    IN  [k \in 1..Len(ups) |->
            [up |-> ups[k].z, lo |-> los[k].z, red_up |-> ups[k].red, red_lo |-> los[k].red]]

\* lines 604-664: the walk over the sorted intervals; index is 0-based
WalkRaises(iv) == iv[1].up < 0 /\ iv[1].lo < 0

WalkSegments(iv, z_end_bubble) ==
    LET len == Len(iv)
        at(index) ==
            LET e == iv[index + 1]
                first == IF index = 0
                         THEN IF e.up < 0 /\ 0 < e.lo
                              THEN \* lines 612-619, with the factor (1+z)/(1+z_bi)
                                   <<[z_bi |-> z_end_bubble, z_ei |-> e.red_lo]>>
                              ELSE <<[z_bi |-> z_end_bubble, z_ei |-> e.red_up]>>
                         ELSE IF index # len - 1
                              THEN <<[z_bi |-> iv[index].red_lo, z_ei |-> e.red_up]>>
                              ELSE <<>>
                last == IF index = len - 1 /\ len # 1
                        THEN <<[z_bi |-> iv[index].red_lo, z_ei |-> e.red_up],
                               [z_bi |-> e.red_lo, z_ei |-> comoving_distance("5.3")]>>
                        ELSE IF index = len - 1 /\ len = 1
                             THEN <<[z_bi |-> e.red_lo, z_ei |-> comoving_distance("5.3")]>>
                             ELSE <<>>
            IN  first \o last
    IN  Concat([k \in 1..len |-> at(k - 1)])

RECURSIVE SumCurves(_)
SumCurves(segs) ==
    IF segs = <<>> THEN [w \in 1..NWave |-> 0]
    ELSE [w \in 1..NWave |->
            Segment(Head(segs).z_bi, Head(segs).z_ei)[w] + SumCurves(Tail(segs))[w]]

\* the array handed back as computed
ClampMutant(curve) == [w \in 1..NWave |-> Fin(curve[w])]

\* lines 666-667: taus[taus < 0.0] = np.inf
Clamp(curve) == [w \in 1..NWave |-> IF curve[w] < 0 THEN Inf ELSE Fin(curve[w])]

\* The calls of calculate_taus_i.  From _get_likelihood (lines 243-252 of
\* main.py): the ensemble get_bubbles(x_H, 200) returned, z_source = red_s,
\* z_end_bubble the redshift at distance dist in front of red_s, n_iter
\* random sightlines.  Directly: any ensemble, source redshift 7.5, the
\* default dist, and either random sightlines or the sightline through
\* (x_pos, y_pos) = (0, 0).
TausCallsFromTask ==
    {[caller |-> "task", xh_unc |-> u, x_H |-> xh, bubbles |-> bs,
      z_source |-> comoving_distance("7.5"), dist |-> d,
      z_end_bubble |-> comoving_distance("7.5") - d,
      n_iter |-> ni, pos |-> <<>>] :
        u \in BOOLEAN, xh \in {50, XHFixed, 80}, bs \in SeqsUpTo(BubblesSampled, MaxBubbles),
        d \in {0, 2}, ni \in 1..MaxSightlines}

TausCallsDirect ==
    {[caller |-> "direct", xh_unc |-> FALSE, x_H |-> 0, bubbles |-> bs,
      z_source |-> comoving_distance("7.5"), dist |-> DistDefault,
      z_end_bubble |-> comoving_distance("7.5") - 5,
      n_iter |-> ni, pos |-> ps] :
        bs \in SeqsUpTo(BubbleChoices, MaxBubbles),
        ni \in 1..MaxSightlines, ps \in {<<>>, <<<<0, 0>>>>}}

InitTaus ==
    /\ c_in \in {c \in TausCallsFromTask : c.x_H \in XHOfIteration(c.xh_unc)}
                \cup TausCallsDirect
    /\ c_pc = "loop"
    /\ c_i = 0
    /\ taus = <<>>
    /\ c_ret = None
    /\ c_hist = <<>>
    /\ GridIdle /\ TaskIdle /\ DistIdle /\ BubIdle /\ RunIdle /\ MergeIdle

\* lines 524-529: the number of sightlines of the call
NSightlines(in) == IF in.pos # <<>> THEN 1 ELSE in.n_iter

\* lines 578-582: the curve of a sightline that passes through no bubble
NoIntersectionCurve(in) ==
    tau_wv(in.dist, in.z_source, comoving_distance("5.3"), NfNoIntersection)

\* lines 541-664: the body of the sightline loop for the sightline (xr, yr)
Sightline(xr, yr) ==
    /\ c_pc = "loop"
    /\ c_i < NSightlines(c_in)
    /\ c_in.pos # <<>> => <<xr, yr>> = c_in.pos[1]
    /\ LET edges == Edges(xr, yr, c_in.bubbles)
           iv == SortedMerged(edges)
           segs == WalkSegments(iv, c_in.z_end_bubble)
           seen == [xr |-> xr, yr |-> yr, edges |-> edges, iv |-> iv,
                    behind |-> \E k \in 1..Len(edges) :
                                  edges[k].up < 0 /\ edges[k].lo < 0,
                    segs |-> IF edges = <<>> \/ WalkRaises(iv) THEN <<>> ELSE segs]
       IN  /\ c_hist' = Append(c_hist, seen)
           /\ IF edges = <<>>
              THEN /\ taus' = Append(taus, NoIntersectionCurve(c_in))
                   /\ c_i' = c_i + 1
                   /\ UNCHANGED c_pc
              ELSE IF WalkRaises(iv)
              THEN \* lines 609-611: raise ValueError
                   /\ c_pc' = "raised"
                   /\ UNCHANGED <<taus, c_i>>
              ELSE /\ taus' = Append(taus, SumCurves(segs))
                   /\ c_i' = c_i + 1
                   /\ UNCHANGED c_pc
    /\ UNCHANGED <<c_in, c_ret>>
    /\ TausFrame

\* lines 666-668
ReturnTaus ==
    /\ c_pc = "loop"
    /\ c_i = NSightlines(c_in)
    /\ c_ret' = [k \in 1..Len(taus) |-> Clamp(taus[k])]
    /\ c_pc' = "returned"
    /\ UNCHANGED <<c_in, c_i, taus, c_hist>>
    /\ TausFrame

NextTaus ==
    \/ \E sl \in SightlineChoices : Sightline(sl[1], sl[2])
    \/ ReturnTaus

SpecTaus == InitTaus /\ [][NextTaus]_vars

\* C8: a sightline that passes through a bubble with both edges at negative
\* z makes the call raise ValueError; no array is returned.
C8_BehindBubbleRaises ==
    (\E k \in 1..Len(c_hist) : c_hist[k].behind) => c_pc = "raised" /\ c_ret = None

\* C9: called from _get_likelihood, a sightline through no bubble gets
\* tau_wv at the x_H the iteration's bubble field was sampled with.
C9_FallbackAtSampledXH ==
    c_pc = "returned" /\ c_in.caller = "task" =>
        \A k \in 1..Len(c_hist) :
            c_hist[k].edges = <<>> =>
                c_ret[k] = Clamp(tau_wv(c_in.dist, c_in.z_source,
                                        comoving_distance("5.3"), c_in.x_H))

\* C10: no bubbles, source redshift 7.5, the sightline at the origin, the
\* other arguments at their defaults: the curve of tau_wv at its defaults.
C10_EmptyEnsembleIsDefaultTauWv ==
    /\ c_pc = "returned"
    /\ c_in.caller = "direct"
    /\ c_in.bubbles = <<>>
    /\ c_in.pos = <<<<0, 0>>>>
    => c_ret[1] = Clamp(tau_wv(DistDefault, comoving_distance("7.5"),
                               comoving_distance("5.3"), NfDefault))

\* the intervals of a sightline are one outer interval and one or more
\* intervals that lie inside it
OuterOf(edges) ==
    {o \in 1..Len(edges) :
        \A k \in 1..Len(edges) \ {o} :
            edges[o].up < edges[k].up /\ edges[k].lo < edges[o].lo}

\* C11: one outer interval with intervals nested inside it: the merge leaves
\* exactly one interval, the outer one, for the walk.
C11_NestedMergedToOuter ==
    \A k \in 1..Len(c_hist) :
        LET e == c_hist[k].edges
        IN  Len(e) >= 2 /\ OuterOf(e) # {} =>
                /\ Len(c_hist[k].iv) = 1
                /\ \A o \in OuterOf(e) : c_hist[k].iv[1] = e[o]

\* the unit steps of the path between two redshifts, the higher one first
PathSteps(hi, lo) == {q \in Int : lo <= q /\ q < hi} \cap (0..comoving_distance("7.5"))

\* the steps of the path a list of pieces covers, each piece counted once,
\* or -1 when two pieces share a step
RECURSIVE Covered(_)
Covered(pieces) ==
    IF pieces = <<>> THEN {}
    ELSE LET rest == Covered(Tail(pieces))
         IN  IF rest = {-1} \/ rest \cap Head(pieces) # {} THEN {-1}
             ELSE rest \cup Head(pieces)

\* C12: with at least one intersection, the intervals after the merge are
\* pairwise disjoint, every neutral segment of the walk runs from a redshift
\* to a redshift that is not higher, and the neutral segments together with
\* the ionized intervals partition the path from the start redshift to 5.3.
C12_WalkPartitionsPath ==
    \A k \in 1..Len(c_hist) :
        LET iv == c_hist[k].iv
            segs == c_hist[k].segs
            start == c_in.z_end_bubble
            ion == [j \in 1..Len(iv) |->
                       PathSteps(IF iv[j].red_up < start THEN iv[j].red_up ELSE start,
                                 iv[j].red_lo)]
            neu == [j \in 1..Len(segs) |-> PathSteps(segs[j].z_bi, segs[j].z_ei)]
        IN  c_hist[k].edges # <<>> /\ segs # <<>> =>
                /\ \A i, j \in 1..Len(iv) :
                       i # j => iv[i].lo <= iv[j].up \/ iv[j].lo <= iv[i].up
                /\ \A j \in 1..Len(segs) : segs[j].z_bi >= segs[j].z_ei
                /\ Covered(ion \o neu) = PathSteps(start, comoving_distance("5.3"))

MaxCoord == 3        \* galaxy coordinates run over -MaxCoord..MaxCoord
MaxRb == 5           \* radius of the candidate bubble

NaN == "nan"

Sq(v) == v * v

\* a square number, or a number np.sqrt is not asked the root of exactly
IsSquare(v) == v < 0 \/ \E q \in 0..v : q * q = v

\* lines 188-189: the galaxy is inside the candidate bubble
InsideBubble(g, b) == Sq(g.x - b.x) + Sq(g.y - b.y) + Sq(g.z - b.z) < Sq(b.r)

\* the distance to the edge the sightline entered through
ExitDistMutant(g, b) ==
    LET arg == Sq(b.r) - Sq(g.x - b.x) - Sq(g.y - b.y)
    IN  IF arg < 0 THEN NaN ELSE g.z - b.z - ISqrt(arg)

\* lines 190-192: dist = zg - zb + np.sqrt(rb ** 2 - (xg - xb) ** 2 - (yg - yb) ** 2);
\* np.sqrt gives nan below zero
ExitDist(g, b) ==
    LET arg == Sq(b.r) - Sq(g.x - b.x) - Sq(g.y - b.y)
    IN  IF arg < 0 THEN NaN ELSE g.z - b.z + ISqrt(arg)

\* lines 175-177: red_s, the redshift of the galaxy, as a comoving distance
red_s_of(g) == comoving_distance("7.5") + g.z

\* Candidate bubbles and galaxies on the integer lattice; a galaxy inside
\* the bubble is placed where the root is a whole number.
DistInputs ==
    {in \in [g : [x : -MaxCoord..MaxCoord, y : -MaxCoord..MaxCoord,
                  z : -MaxCoord..MaxCoord],
             b : {Bubble(0, 0, 0, r) : r \in 1..MaxRb}
                 \cup {Bubble(1, 0, -1, r) : r \in 1..MaxRb},
             n_iter_bub : 1..MaxIterBub] :
        InsideBubble(in.g, in.b) =>
            IsSquare(Sq(in.b.r) - Sq(in.g.x - in.b.x) - Sq(in.g.y - in.b.y))}

InitDist ==
    /\ e_in \in DistInputs
    /\ e_pc = "start"
    /\ e_dist = None
    /\ e_z_end_bub = None
    /\ e_calls = <<>>
    /\ GridIdle /\ TaskIdle /\ TausIdle /\ BubIdle /\ RunIdle /\ MergeIdle

\* lines 188-201
ExitDistance ==
    /\ e_pc = "start"
    /\ IF InsideBubble(e_in.g, e_in.b)
       THEN /\ e_dist' = ExitDist(e_in.g, e_in.b)
            /\ e_z_end_bub' = red_s_of(e_in.g) - ExitDist(e_in.g, e_in.b)
       ELSE /\ e_dist' = 0
            /\ e_z_end_bub' = red_s_of(e_in.g)
    /\ e_pc' = "done"
    /\ UNCHANGED <<e_in, e_calls>>
    /\ DistFrame

\* dist left at the default of calculate_taus_i
TausArgsMutant(red_s, z_end_bub, dist_now) ==
    [red_s |-> red_s, z_end_bub |-> z_end_bub, dist |-> DistDefault]

\* lines 243-252: calculate_taus_i(..., red_s, z_end_bub, ..., dist=dist)
TausArgs(red_s, z_end_bub, dist_now) ==
    [red_s |-> red_s, z_end_bub |-> z_end_bub, dist |-> dist_now]

\* lines 202-252: one pass of the Monte-Carlo loop up to its call of
\* calculate_taus_i
CallTausI ==
    /\ e_pc = "done"
    /\ Len(e_calls) < e_in.n_iter_bub
    /\ e_calls' = Append(e_calls, TausArgs(red_s_of(e_in.g), e_z_end_bub, e_dist))
    /\ UNCHANGED <<e_in, e_pc, e_dist, e_z_end_bub>>
    /\ DistFrame

NextDist ==
    \/ ExitDistance
    \/ CallTausI

SpecDist == InitDist /\ [][NextDist]_vars

\* C14: a galaxy strictly inside the candidate bubble gets the exit distance
\* (zg - zb) + sqrt(rb^2 - (xg-xb)^2 - (yg-yb)^2), the root is taken of a
\* number that is not negative, 0 < dist < 2 rb, and dist = rb at the centre.
C14_ExitDistance ==
    LET g == e_in.g
        b == e_in.b
        arg == Sq(b.r) - Sq(g.x - b.x) - Sq(g.y - b.y)
    IN  e_pc = "done" /\ Sq(g.x - b.x) + Sq(g.y - b.y) + Sq(g.z - b.z) < Sq(b.r) =>
            /\ arg >= 0
            /\ e_dist = (g.z - b.z) + ISqrt(arg)
            /\ 0 < e_dist /\ e_dist < 2 * b.r
            /\ (g.x = b.x /\ g.y = b.y /\ g.z = b.z) => e_dist = b.r

\* a galaxy off the centre, inside the bubble and nearer to its far side
C14_Witness ==
    /\ e_pc = "done"
    /\ InsideBubble(e_in.g, e_in.b)
    /\ e_in.g.x # e_in.b.x
    /\ e_in.g.z < e_in.b.z
    /\ e_dist > 0 /\ e_dist < e_in.b.r

(***************************************************************************)
(*                             get_bubbles                                 *)
(***************************************************************************)

MaxPasses == 7       \* passes of the while loop followed

ZV == 200            \* z_v, as _get_likelihood passes it
MaxRHist == 10       \* max(r_hist) of the size distribution read from disk
ToleranceInv == 100  \* tolerance = 0.01
GiveUpAt == 5        \* try_i >= 5

Abs(v) == IF v < 0 THEN -v ELSE v

\* (1 - xh) * z_v * max(r_hist) * max(r_hist), xh in hundredths
TargetVolume(in) == ((100 - in.xh) * in.z_v * MaxRHist * MaxRHist) \div 100

\* line 177: abs(v_tot - target) / target > tolerance
OffTarget(in, vol) == ToleranceInv * Abs(vol - TargetVolume(in)) > TargetVolume(in)

\* lines 249-250: abs(v_tot + v - target) / (v_tot + v) < tolerance
CloseEnough(in, vol) == ToleranceInv * Abs(vol - TargetVolume(in)) < vol

\* One random placement, lines 180-236: the centre random_x (random_y and
\* random_z are the same for all), the radius bubble_now, the volume v left
\* after the edge and overlap deductions, and whether the mock test of lines
\* 186-188 excludes it.
Placements ==
    [random_x : {0, 1, 3}, bubble_now : {1, 3},
     v : {-1, 4000, 5000, 5101, 6000}, excluded : BOOLEAN]

\* the test never made
EnclosesMutant(b, d) == FALSE

\* lines 222-233 for one accepted bubble b: the two overlap and the smaller
\* lies inside the bigger, dist + small < big
Encloses(b, d) ==
    LET dist == Abs(b.x - d.random_x)
        big == IF b.r > d.bubble_now THEN b.r ELSE d.bubble_now
        small == IF b.r > d.bubble_now THEN d.bubble_now ELSE b.r
    IN  /\ Sq(b.x - d.random_x) < Sq(b.r + d.bubble_now)
        /\ dist + small < big

\* lines 219-233: break_it after the loop over the accepted bubbles
BreakIt(bubbles, d) == \E k \in 1..Len(bubbles) : Encloses(bubbles[k], d)

BubbleInputs == [xh : {50, XHFixed, 80}, z_v : {ZV}, mock : BOOLEAN]

InitBub ==
    /\ b_in \in BubbleInputs
    /\ b_pc = "loop"
    /\ v_tot = 0
    /\ try_i = 0
    /\ bubble_xs = <<>>
    /\ b_hist = [passes |-> 0, rejected |-> 0, how |-> "none", broke |-> FALSE]
    /\ GridIdle /\ TaskIdle /\ TausIdle /\ DistIdle /\ RunIdle /\ MergeIdle

\* lines 177-262: one pass of the while loop
Place(d) ==
    /\ b_pc = "loop"
    /\ OffTarget(b_in, v_tot)
    /\ b_hist.passes < MaxPasses
    /\ d.excluded => b_in.mock
    /\ LET break_it == BreakIt(bubble_xs, d)
           again(h) == [passes |-> b_hist.passes + 1,
                        rejected |-> b_hist.rejected + 1, how |-> h,
                        broke |-> b_hist.broke \/ (~d.excluded /\ break_it)]
           accept(h) == /\ v_tot' = v_tot + d.v
                        /\ try_i' = 0
                        /\ bubble_xs' = Append(bubble_xs,
                               [x |-> d.random_x, r |-> d.bubble_now])
                        /\ b_hist' = [passes |-> b_hist.passes + 1,
                                      rejected |-> 0, how |-> h,
                                      broke |-> b_hist.broke]
       IN  IF d.excluded
           THEN \* line 188: continue
                /\ b_hist' = again("none")
                /\ UNCHANGED <<b_pc, v_tot, try_i, bubble_xs>>
           ELSE IF break_it \/ d.v < 0
           THEN \* lines 240-246
                /\ try_i' = try_i + 1
                /\ IF try_i + 1 >= GiveUpAt
                   THEN b_pc' = "returned" /\ b_hist' = again("gave_up")
                   ELSE b_pc' = b_pc /\ b_hist' = again("none")
                /\ UNCHANGED <<v_tot, bubble_xs>>
           ELSE IF v_tot + d.v > TargetVolume(b_in)
           THEN \* lines 248-253
                IF CloseEnough(b_in, v_tot + d.v)
                THEN accept("that_it") /\ b_pc' = "returned"
                ELSE /\ b_hist' = again("none")
                     /\ UNCHANGED <<b_pc, v_tot, try_i, bubble_xs>>
           ELSE accept("none") /\ UNCHANGED b_pc
    /\ UNCHANGED b_in
    /\ BubFrame

\* line 177 false, then line 263
LoopExit ==
    /\ b_pc = "loop"
    /\ ~OffTarget(b_in, v_tot)
    /\ b_pc' = "returned"
    /\ b_hist' = [b_hist EXCEPT !.how = "on_target"]
    /\ UNCHANGED <<b_in, v_tot, try_i, bubble_xs>>
    /\ BubFrame

NextBub ==
    \/ \E d \in Placements : Place(d)
    \/ LoopExit

SpecBub == InitBub /\ [][NextBub]_vars

\* C19: never more than 5 rejected placements in a row, of whatever kind;
\* at the 5th the function gives up and returns.
C19_FiveRejectionsAtMost ==
    /\ b_hist.rejected <= 5
    /\ b_hist.rejected = 5 => b_pc = "returned" /\ b_hist.how = "gave_up"

\* C20: a return that is not the give-up leaves v_tot nearer than 1% of the
\* target to the target.
C20_WithinOnePercent ==
    b_pc = "returned" /\ b_hist.how # "gave_up" =>
        100 * Abs(v_tot - TargetVolume(b_in)) < TargetVolume(b_in)

\* C18: called with n_grid = N the driver submits N^4 tasks and returns
\* arrays whose first four axes have length N each.
C18_NToTheFourthTasks ==
    LET axis == 0..(n_grid - 1)
        shape == axis \X axis \X axis \X axis
    IN  g_pc = "returned" =>
            /\ Len(like_calc) = n_grid * n_grid * n_grid * n_grid
            /\ \A grid \in GridsReturned : DOMAIN grid = shape

(***************************************************************************)
(*        two runs of _get_likelihood next to each other                   *)
(***************************************************************************)

MaxBins == 4         \* bins_tot runs over 3..MaxBins

Runs == {"A", "B"}

\* States of numpy's global random generator a run can start from.  Every
\* draw of a run is a function of that state and of the place of the draw
\* in the stream; from a state of EmptyFieldSeeds get_bubbles gives up before
\* it accepts a bubble and returns empty lists.
Seeds == 1..4
EmptyFieldSeeds == {3, 4}

\* what the driver hands to every task alike
SharedArgs ==
    [bins_tot : 3..MaxBins, consistent_noise : BOOLEAN, cache : BOOLEAN,
     xs : {<<1>>, <<1, 1>>, <<1, 2>>}]

\* what is a run's own: the index and grid point it was called with, the
\* state of the random generator, and what the process has besides: the
\* module global inputs (<<>> where there is none), the date, the worker
OwnArgs ==
    [ndex : 0..1, seed : Seeds, inputs_bins_tot : {<<>>} \cup {<<k>> : k \in 3..MaxBins},
     date : {"d1", "d2"}]

\* lines 215-218: x_outs of the galaxy's first get_bubbles call, random_x
\* being a value no other draw gives
x_outs_of(seed, gal) == IF seed \in EmptyFieldSeeds THEN <<>> ELSE <<<<seed, gal>>>>

\* venv.save.HdF5Saver: the file it opens, named after the galaxy position
\* and the first bubble position within output_dir
HdF5Saver(x_gal, x_first_bubble, output_dir) ==
    [output_dir |-> output_dir, x_gal |-> x_gal, x_first_bubble |-> x_first_bubble]

\* lines 97-100: dir_name
dir_name(date) == <<"dir_", date>>

\* lines 224-241: the file opened for a galaxy
save_cl(sh, own, gal) ==
    LET x_outs == x_outs_of(own.seed, gal)
    IN  IF x_outs # <<>>
        THEN HdF5Saver(sh.xs[gal + 1], x_outs[1], <<"cache_dir", dir_name(own.date)>>)
        ELSE \* except IndexError
             HdF5Saver(sh.xs[gal + 1], x_outs, <<"cache_dir">>)

\* lines 291-333: the bins bin_i whose rows of spectrum_now are written;
\* wave_em_dig_arr has one entry per bin of range(2, bins_tot) and zip stops
\* at the shorter of the two
BinsWritten(sh, own) ==
    IF ~sh.consistent_noise THEN 2..(sh.bins_tot - 1)
    ELSE 2..(Min(own.inputs_bins_tot[1], sh.bins_tot) - 1)

\* lines 202-333: the samples of one galaxy
SamplesOf(sh, own, gal) ==
    [taus_now |-> <<"tau", own.seed, gal>>,
     flux_now |-> <<"flux", own.seed, gal>>,
     spectrum_now |-> [bin_i \in BinsWritten(sh, own) |-> <<"spectrum", own.seed, gal, bin_i>>]]

\* the samples of a galaxy whose Monte-Carlo loop raised
NoSamples == [taus_now |-> <<>>, flux_now |-> <<>>, spectrum_now |-> <<>>]

InitRuns ==
    /\ r_in \in [shared : SharedArgs, own : [Runs -> OwnArgs]]
    /\ r_pc = [r \in Runs |-> [index_gal |-> 0, exc |-> "none"]]
    /\ r_out = [r \in Runs |-> <<>>]
    /\ GridIdle /\ TaskIdle /\ TausIdle /\ DistIdle /\ BubIdle /\ MergeIdle

\* lines 136-368 for the next galaxy of run r
GalaxyOf(r) ==
    LET sh == r_in.shared
        own == r_in.own[r]
        gal == r_pc[r].index_gal
    IN  /\ r_pc[r].exc = "none"
        /\ gal < Len(sh.xs)
        /\ IF sh.consistent_noise /\ own.inputs_bins_tot = <<>>
           THEN \* line 328: NameError
                /\ r_pc' = [r_pc EXCEPT ![r].exc = "NameError"]
                /\ r_out' = [r_out EXCEPT ![r] =
                       Append(@, [file |-> IF sh.cache THEN save_cl(sh, own, gal) ELSE None,
                                  samples |-> NoSamples])]
           ELSE /\ r_pc' = [r_pc EXCEPT ![r].index_gal = gal + 1]
                /\ r_out' = [r_out EXCEPT ![r] =
                       Append(@, [file |-> IF sh.cache THEN save_cl(sh, own, gal) ELSE None,
                                  samples |-> SamplesOf(sh, own, gal)])]
        /\ UNCHANGED r_in
        /\ RunFrame

NextRuns == \E r \in Runs : GalaxyOf(r)

SpecRuns == InitRuns /\ [][NextRuns]_vars

RunDone(r) == r_pc[r].exc # "none" \/ r_pc[r].index_gal = Len(r_in.shared.xs)

\* C15: two runs with the same arguments, started from the same state of the
\* random generator, make the same samples.
C15_SameSeedSameSamples ==
    /\ r_in.own["A"].ndex = r_in.own["B"].ndex
    /\ r_in.own["A"].seed = r_in.own["B"].seed
    /\ RunDone("A") /\ RunDone("B")
    => [k \in 1..Len(r_out["A"]) |-> r_out["A"][k].samples]
         = [k \in 1..Len(r_out["B"]) |-> r_out["B"][k].samples]

\* the files opened so far, as <<run, galaxy, file>>
Opened ==
    IF r_in.shared.cache
    THEN UNION {{<<r, k, r_out[r][k].file>> : k \in 1..Len(r_out[r])} : r \in Runs}
    ELSE {}

\* C16: two tasks of different grid points, each with its own state of the
\* random generator: no file is opened for two (grid point, galaxy) pairs,
\* an empty bubble field included.
C16_CacheFilesDistinct ==
    /\ r_in.own["A"].ndex # r_in.own["B"].ndex
    /\ r_in.own["A"].seed # r_in.own["B"].seed
    => \A o1, o2 \in Opened :
           o1[3] = o2[3] => o1[1] = o2[1] /\ o1[2] = o2[2]

\* C17: a task uses its arguments and locals only: the bins it loops over
\* are those of its bins_tot argument, and no name outside it is needed.
C17_NoSharedState ==
    \A r \in Runs :
        /\ r_pc[r].exc = "none"
        /\ \A k \in 1..Len(r_out[r]) :
               DOMAIN r_out[r][k].samples.spectrum_now = 2..(r_in.shared.bins_tot - 1)

\* C21: at every point of the loop and in what is returned no bubble lies
\* inside another: for every pair the distance of the centres plus the
\* smaller radius is at least the larger radius.
C21_NoBubbleEnclosed ==
    \A i, j \in 1..Len(bubble_xs) :
        i # j =>
            LET a == bubble_xs[i]
                b == bubble_xs[j]
            IN  Abs(a.x - b.x) + (IF a.r < b.r THEN a.r ELSE b.r)
                    >= (IF a.r < b.r THEN b.r ELSE a.r)

\* an enclosed candidate was turned away and the ensemble returned holds
\* bubbles that overlap without one enclosing the other
C21_Witness ==
    /\ b_pc = "returned"
    /\ b_hist.broke
    /\ \E i, j \in 1..Len(bubble_xs) :
           /\ i # j
           /\ bubble_xs[i].r # bubble_xs[j].r
           /\ Abs(bubble_xs[i].x - bubble_xs[j].x) < bubble_xs[i].r + bubble_xs[j].r

\* C22: called without spectra (like_on_flux = False) the task goes through
\* its Monte-Carlo loop without reading a name that is only assigned when
\* spectra are given.
C22_WithoutSpectraCompletes ==
    ~t_in.like_on_flux =>
        ~(t_pc = "raised" /\ t_hist.raised_in = "mc" /\ exc = "UnboundLocalError")

\* C23: without beta_data every galaxy is processed with the UV slope -2.0
\* (slopes in tenths).
C23_DefaultSlopeMinusTwo ==
    (t_in.beta_data = Unbound /\ t_pc = "mc") => beti(t_in, index_gal) = -20

\* C24: after n completed Monte-Carlo passes taus_now holds n * n_inside_tau
\* values, the positions n * n_inside_tau up to (n + 1) * n_inside_tau of
\* pass n hold that pass's transmissions and the flux made from them, and
\* the samples stored for a galaxy have n_iter_bub * n_inside_tau entries.
C24_SamplesAligned ==
    LET nit == t_in.n_inside_tau
    IN  /\ t_pc = "mc" =>
              /\ Len(taus_now) = n * nit
              /\ \A it \in 0..(n - 1), k \in 1..nit :
                     /\ taus_now[it * nit + k] =
                            [gal |-> index_gal, it |-> it, k |-> k, big |-> FALSE]
                     /\ flux_now[it * nit + k] = <<"F", taus_now[it * nit + k]>>
        /\ Len(taus_tot) = Len(flux_tot)
        /\ \A g \in 1..Len(taus_tot) :
               /\ Len(taus_tot[g]) = t_in.n_iter_bub * nit
               /\ Len(flux_tot[g]) = t_in.n_iter_bub * nit

\* the second galaxy is past its first pass of two draws, the first galaxy's
\* samples are stored
C24_Witness ==
    /\ t_pc = "mc"
    /\ index_gal = 1
    /\ n = 1
    /\ t_in.n_iter_bub = 2
    /\ t_in.n_inside_tau = 2
    /\ Len(taus_tot) = 1
    /\ Len(taus_now) = 2

\* C25: in multiple-iteration mode the tasks of iteration k run only when
\* every result of the iterations before k is stored (slots below ind_iter
\* hold their grids, the others are still zeros), and a step changes no slot
\* of the top-level grid other than ind_iter.
C25_IterationsInTurn ==
    /\ [](g_pc = "map" /\ multiple_iter # 0 =>
             \A j \in 0..(multiple_iter - 1) :
                 top[j] = IF j < ind_iter THEN SequentialGrid(j)
                          ELSE [c \in Cells(g_lens) |-> Zero])
    /\ [][\A j \in DOMAIN top : j # ind_iter => top'[j] = top[j]]_vars

\* tasks of the second iteration are being handed back, the first
\* iteration's slot is written and the second is not
C25_Witness ==
    /\ g_pc = "map"
    /\ multiple_iter = 2
    /\ ind_iter = 1
    /\ like_calc # <<>>
    /\ pending # {}
    /\ top[0] = SequentialGrid(0)
    /\ \A c \in Cells(g_lens) : top[1][c] = Zero

\* C26: when the grid is returned every task index 0 .. T-1 occurs exactly
\* once among the collected results, and the cell [ix, iy, iz, ir] holds the
\* result of the task that was called with the candidate
\* (x_grid[ix], y_grid[iy], z_grid[iz], r_grid[ir]).
C26_CellHoldsItsCandidate ==
    g_pc = "returned" =>
        /\ \A i \in 0..(NTasks(g_lens) - 1) :
               Cardinality({k \in 1..Len(like_calc) : like_calc[k].ndex = i}) = 1
        /\ Len(like_calc) = NTasks(g_lens)
        /\ \A it \in 0..MaxMultipleIter :
               (it = 0 \/ it < multiple_iter) =>
                   \A c \in Cells(g_lens) :
                       (IF multiple_iter = 0 THEN likelihood_grid
                        ELSE likelihood_grid[it])[c]
                           = Like(it, <<linspace(g_lens[1])[c[1] + 1],
                                        linspace(g_lens[2])[c[2] + 1],
                                        linspace(g_lens[3])[c[3] + 1],
                                        linspace(g_lens[4])[c[4] + 1]>>)

\* a grid with two axes of two points was returned
C26_Witness ==
    /\ g_pc = "returned"
    /\ Cardinality({a \in 1..4 : g_lens[a] = 2}) = 2
    /\ Len(like_calc) = 4
    /\ \E a, b \in 1..Len(arrival) : a < b /\ arrival[a] > arrival[b]

\* C27: the second filter removes no galaxy, so the distribution at position
\* k of the filtered lists is that of galaxy k, and every term the KDE loop
\* computes at position k compares galaxy k's distribution with the data of
\* galaxy k.
C27_KdePositionsAligned ==
    /\ (t_pc \in {"kde", "handler", "returned"}) =>
           /\ Len(tot_b) = Len(taus_tot)
           /\ \A k \in 1..Len(tot_b) :
                  /\ tot_b[k].gal = k - 1
                  /\ tot_b[k].taus = taus_tot[k]
                  /\ tot_b[k].flux = flux_tot[k]
    /\ \A g \in DOMAIN contrib : \A i \in 1..Len(contrib[g]) :
           contrib[g][i].gal = g /\ contrib[g][i].data = g

\* the KDE loop has run over two galaxies and the task has returned
C27_Witness ==
    /\ t_pc = "returned"
    /\ t_in.N = 2
    /\ Len(tot_b) = 2
    /\ contrib[0] # <<>>
    /\ contrib[1] # <<>>

OpsOn(f) == SelectSeq(cache_ops, LAMBDA o : o.file = f)

\* C28: with the cache on, the calls made on a galaxy's file are, in this
\* order, open, save_attrs, save_datasets, close_file, each once, its name is
\* in names_used once it is closed, and when the task has returned or raised
\* every file it opened is closed.
C28_CacheFileLifecycle ==
    LET full == <<"open", "save_attrs", "save_datasets", "close_file">>
    IN  \A g \in Galaxies(t_in.N) :
            LET ops == OpsOn(fname(g))
            IN  /\ Len(ops) <= 4
                /\ \A k \in 1..Len(ops) : ops[k].op = full[k]
                /\ Len(ops) = 4 => \E k \in 1..Len(names_used) : names_used[k] = fname(g)
                /\ t_pc \in {"returned", "raised"} => Len(ops) \in {0, 4}

(***************************************************************************)
(*                 calculate_taus, up to the merge step                    *)
(***************************************************************************)

\* the bubbles of a call and the sightline (xr, yr)
MergeInputs ==
    [bubbles : SeqsUpTo(BubbleChoices, MaxBubbles), xr : {0, 4, 9}, yr : {0}]

InitMerge ==
    /\ u_in \in MergeInputs
    /\ u_pc = "edges"
    /\ z_edge = <<>>
    /\ z_edge_up_sorted = <<>>
    /\ z_edge_lo_sorted = <<>>
    /\ GridIdle /\ TaskIdle /\ TausIdle /\ DistIdle /\ BubIdle /\ RunIdle

\* lines 319-364: the edges of the bubbles the sightline passes through, as
\* in calculate_taus_i; without any the sightline takes the mean-field curve
CollectEdges ==
    /\ u_pc = "edges"
    /\ z_edge' = Edges(u_in.xr, u_in.yr, u_in.bubbles)
    /\ u_pc' = IF z_edge' = <<>> THEN "no_intersection" ELSE "merge"
    /\ UNCHANGED <<u_in, z_edge_up_sorted, z_edge_lo_sorted>>
    /\ MergeFrame

\* lines 374-380: the positions j whose lower edge goes, 0-based; that of
\* the upper edge is j + 1
indices_to_del_lo(srt) ==
    {j \in 0..(Len(srt) - 2) :
        Len(srt) # 1 /\ srt[j + 1].red_lo < srt[j + 2].red_up}

\* lines 366-385: sort by z_edge_up, find the overlaps, delete
MergeEdges ==
    /\ u_pc = "merge"
    /\ LET srt == argsort(z_edge)
           del_lo == indices_to_del_lo(srt)
           del_up == {j + 1 : j \in del_lo}
       IN  /\ z_edge_up_sorted' =
                  delete([k \in 1..Len(srt) |-> [z |-> srt[k].up, red |-> srt[k].red_up]],
                         del_up)
           /\ z_edge_lo_sorted' =
                  delete([k \in 1..Len(srt) |-> [z |-> srt[k].lo, red |-> srt[k].red_lo]],
                         del_lo)
    /\ u_pc' = "walk"
    /\ UNCHANGED <<u_in, z_edge>>
    /\ MergeFrame

NextMerge ==
    \/ CollectEdges
    \/ MergeEdges

SpecMerge == InitMerge /\ [][NextMerge]_vars

\* the unit steps of the sightline between two edges
StepsBetween(up, lo) == up..(lo - 1)

\* C29: after the merge the lists of upper and lower edges have the same
\* length and their pairs cover exactly the union of the intervals the
\* sightline had before it.
C29_MergeKeepsUnion ==
    u_pc = "walk" =>
        /\ Len(z_edge_up_sorted) = Len(z_edge_lo_sorted)
        /\ UNION {StepsBetween(z_edge_up_sorted[k].z, z_edge_lo_sorted[k].z) :
                     k \in 1..Len(z_edge_up_sorted)}
             = UNION {StepsBetween(z_edge[k].up, z_edge[k].lo) : k \in 1..Len(z_edge)}

\* C30: a galaxy that is not strictly inside the candidate bubble, outside
\* it or exactly on its surface, gets dist = 0 and z_end_bub = red_s, and
\* every call of calculate_taus_i for it is passed these two values.
C30_OutsideGalaxy ==
    (e_pc = "done" /\ ~InsideBubble(e_in.g, e_in.b)) =>
        /\ e_dist = 0
        /\ e_z_end_bub = red_s_of(e_in.g)
        /\ \A k \in 1..Len(e_calls) :
               /\ e_calls[k].dist = 0
               /\ e_calls[k].z_end_bub = red_s_of(e_in.g)
               /\ e_calls[k].red_s = red_s_of(e_in.g)

\* a galaxy exactly on the surface of the bubble, after two passes
C30_Witness ==
    /\ e_pc = "done"
    /\ Sq(e_in.g.x - e_in.b.x) + Sq(e_in.g.y - e_in.b.y) + Sq(e_in.g.z - e_in.b.z)
           = Sq(e_in.b.r)
    /\ Len(e_calls) = 2

=============================================================================
